---- MODULE Spec2Model ----
(***************************************************************************)
(* Model of src/pypi-packager-mcp/server.py: the create_pypi_package       *)
(* pipeline (scaffold, lint, test, build, upload) run inside one           *)
(* tempfile.TemporaryDirectory, with the external tools (ruff, pytest,     *)
(* python -m build, twine) as nondeterministic process outcomes and the    *)
(* filesystem as a function from paths to contents.                        *)
(*                                                                         *)
(* Paths are sequences of components.  Optional[str] values are <<>> for   *)
(* None and <<s>> for the string s.  The emoji that prefix some log lines  *)
(* in the source are left out of the strings; everything else of a         *)
(* message is built as the f-string builds it.                             *)
(***************************************************************************)
EXTENDS Integers, Sequences, FiniteSets, TLC

\* Largest exit status an external tool returns in the model (0..MaxExit).
MaxExit == 1

\* Largest number of files the build tool leaves in dist/.
MaxDistFiles == 2

(***************************************************************************)
(* Filesystem                                                              *)
(***************************************************************************)

\* Content marking a directory entry.
DIR == "<dir>"

IsPrefix(p, q) == Len(p) <= Len(q) /\ SubSeq(q, 1, Len(p)) = p

\* Path.exists()
PathExists(f, p) == p \in DOMAIN f

\* Path.is_dir()
PathIsDir(f, p) == p \in DOMAIN f /\ f[p] = DIR

\* Path.name
PathName(p) == p[Len(p)]

\* str(path)
RECURSIVE PathStr(_)
PathStr(p) ==
    IF Len(p) = 0 THEN ""
    ELSE IF Len(p) = 1 THEN "/" \o p[1]
    ELSE PathStr(SubSeq(p, 1, Len(p) - 1)) \o "/" \o p[Len(p)]

\* Path.write_text(c): create or overwrite the file p.
WriteText(f, p, c) == [q \in DOMAIN f \cup {p} |-> IF q = p THEN c ELSE f[q]]

\* Path.mkdir(parents=True, exist_ok=True): p and its missing ancestors.
MkdirParents(f, p) ==
    LET new == {SubSeq(p, 1, i) : i \in 1..Len(p)} \ DOMAIN f
    IN  [q \in DOMAIN f \cup new |-> IF q \in new THEN DIR ELSE f[q]]

\* shutil.copytree(src, dst, dirs_exist_ok=True): every entry under src is
\* copied to the same relative place under dst, overwriting files there.
CopyTree(f, src, dst) ==
    LET under == {q \in DOMAIN f : IsPrefix(src, q)}
        Dest(q) == dst \o SubSeq(q, Len(src) + 1, Len(q))
        targets == {Dest(q) : q \in under}
        Origin(t) == CHOOSE q \in under : Dest(q) = t
    IN  [t \in DOMAIN f \cup targets |->
            IF t \in targets THEN f[Origin(t)] ELSE f[t]]

\* shutil.copy(src, dst) of an existing regular file.
CopyFile(f, src, dst) == WriteText(f, dst, f[src])

\* Variant of RmTree: os.rmdir in place of shutil.rmtree, which removes the
\* directory only when it is empty.
RmDirOnly(f, d) ==
    IF \E p \in DOMAIN f : IsPrefix(d, p) /\ p # d
    THEN f
    ELSE [q \in DOMAIN f \ {d} |-> f[q]]

\* TemporaryDirectory.cleanup(): the directory and everything under it.
RmTree(f, d) == [q \in {p \in DOMAIN f : ~IsPrefix(d, p)} |-> f[q]]

\* Path.iterdir(): the names directly under d.
DirEntries(f, d) == {p \in DOMAIN f : Len(p) = Len(d) + 1 /\ IsPrefix(d, p)}

\* The orders in which the entries of a directory can be enumerated.
Orderings(S) ==
    {s \in [1..Cardinality(S) -> S] : \A i, j \in DOMAIN s : s[i] = s[j] => i = j}

\* ', '.join(names)
RECURSIVE JoinComma(_)
JoinComma(s) ==
    IF Len(s) = 0 THEN ""
    ELSE IF Len(s) = 1 THEN s[1]
    ELSE s[1] \o ", " \o JoinComma(Tail(s))

(***************************************************************************)
(* Requests                                                                *)
(***************************************************************************)

None == <<>>
Some(s) == <<s>>

\* Python truthiness of an Optional[str]: None and "" are falsy.
Truthy(o) == o # None /\ o[1] # ""

\* The host's files before the invocation: the caller's sources under /home
\* and the system's temporary-file directory /tmp.
UserFs ==
    [p \in { <<"tmp">>,
             <<"home">>,
             <<"home", "mod.py">>,
             <<"home", "single">>,
             <<"home", "single", "__init__.py">>,
             <<"home", "plain">>,
             <<"home", "plain", "mod.py">>,
             <<"home", "plain", "sub">>,
             <<"home", "plain", "sub", "util.py">>,
             <<"home", "pkg">>,
             <<"home", "pkg", "__init__.py">>,
             <<"home", "pkg", "mod.py">> } |->
        IF p \in { <<"tmp">>, <<"home">>, <<"home", "single">>, <<"home", "plain">>,
                   <<"home", "plain", "sub">>, <<"home", "pkg">> }
        THEN DIR
        ELSE IF PathName(p) = "__init__.py" THEN "# user init\n"
        ELSE "x = 1\n"]

\* Values of request.source_path: a path that does not exist (the
\* "dummy_path" of tests/test_server.py), a file, a file that is itself
\* named __init__.py, a directory without and a directory with __init__.py.
SourcePaths ==
    { <<"home", "dummy_path">>,
      <<"home", "mod.py">>,
      <<"home", "single", "__init__.py">>,
      <<"home", "plain">>,
      <<"home", "pkg">> }

PackageNames == {"test_package", "my-package"}

Versions == {"1.0.0"}

Tokens == {None, Some(""), Some("pypi-token")}

PackageRequest ==
    [source_path : SourcePaths,
     package_name : PackageNames,
     version : Versions,
     pypi_token : Tokens,
     repository : {"pypi"},
     run_tests : BOOLEAN,
     lint_code : BOOLEAN,
     min_python : {"3.8"}]

(***************************************************************************)
(* External processes                                                      *)
(***************************************************************************)

\* What subprocess.run can do: raise (the tool could not be started), or
\* return a CompletedProcess with an exit status and the two streams.
NoProc == [kind |-> "none", returncode |-> 0, stdout |-> "", stderr |-> "", exc |-> ""]

Raised == [kind |-> "raise", returncode |-> 0, stdout |-> "", stderr |-> "",
           exc |-> "[Errno 2] No such file or directory"]

Completed ==
    [kind : {"exit"}, returncode : 0..MaxExit, stdout : {"out\n"},
     stderr : {"", "diag\n"}, exc : {""}]

ProcOutcomes == {Raised} \cup Completed

(***************************************************************************)
(* Stage functions                                                         *)
(***************************************************************************)

\* Variant of CreateInitIfMissing: the existence test left out, so that the
\* module marker is always written.
CreateInitAlways(f, init, version) ==
    WriteText(f, init, "__version__ = \"" \o version \o "\"\n")

\* Create __init__.py if missing
CreateInitIfMissing(f, init, version) ==
    IF ~PathExists(f, init)
    THEN WriteText(f, init, "__version__ = \"" \o version \o "\"\n")
    ELSE f

\* setup_package_structure(tmpdir, request).  The result carries the
\* filesystem it leaves behind, the returned package_dir, and whether (and
\* with what message) it raised; when it raises, what was written before the
\* failing call stays written.
setup_package_structure(f, tmpdir, req) ==
    LET package_dir == tmpdir \o <<req.package_name>>
        src_dir == package_dir \o <<"src", req.package_name>>
        init == src_dir \o <<"__init__.py">>
        f1 == MkdirParents(f, src_dir)
        source_path == req.source_path
        f2 == IF PathIsDir(f1, source_path)
              THEN CopyTree(f1, source_path, src_dir)
              ELSE CopyFile(f1, source_path, src_dir \o <<PathName(source_path)>>)
        f3 == CreateInitIfMissing(f2, init, req.version)
        pyproject_content ==
            "[build-system]\nrequires = [\"setuptools>=61.0\"]\n"
            \o "build-backend = \"setuptools.build_meta\"\n[project]\n"
            \o "name = \"" \o req.package_name \o "\"\n"
            \o "version = \"" \o req.version \o "\"\n"
            \o "requires-python = \">=" \o req.min_python \o "\"\n"
            \o "[tool.ruff]\nline-length = 120\n"
        f4 == WriteText(f3, package_dir \o <<"pyproject.toml">>, pyproject_content)
        readme_content ==
            "# " \o req.package_name \o "\npip install " \o req.package_name
            \o "\nimport " \o req.package_name \o "\n"
        f5 == WriteText(f4, package_dir \o <<"README.md">>, readme_content)
    IN  IF ~PathIsDir(f1, source_path) /\ ~PathExists(f1, source_path)
        THEN [fs |-> f1, raised |-> TRUE, package_dir |-> <<>>,
              exc |-> "[Errno 2] No such file or directory: '"
                      \o PathStr(source_path) \o "'"]
        ELSE [fs |-> f5, raised |-> FALSE, package_dir |-> package_dir, exc |-> ""]

\* Variant of run_ruff_lint: the diagnostic stream of a failing linter run is
\* not looked at.
run_ruff_lint_no_stderr(o) ==
    IF o.kind = "raise"
    THEN [logs |-> <<>>, errors |-> <<"Linter error: " \o o.exc>>, raised |-> FALSE]
    ELSE IF o.returncode = 0
    THEN [logs |-> <<"Linting passed">>, errors |-> <<>>, raised |-> FALSE]
    ELSE [logs |-> <<"Linting issues:\n" \o o.stdout>>, errors |-> <<>>,
          raised |-> FALSE]

\* run_ruff_lint(package_dir), given what subprocess.run did.
run_ruff_lint(o) ==
    IF o.kind = "raise"
    THEN [logs |-> <<>>, errors |-> <<"Linter error: " \o o.exc>>, raised |-> FALSE]
    ELSE IF o.returncode = 0
    THEN [logs |-> <<"Linting passed">>, errors |-> <<>>, raised |-> FALSE]
    ELSE [logs |-> <<"Linting issues:\n" \o o.stdout>>,
          errors |-> IF o.stderr # "" THEN <<"Linting error: " \o o.stderr>> ELSE <<>>,
          raised |-> FALSE]

\* run_pytest(package_dir), given what subprocess.run did (the process is
\* started only when package_dir/tests exists).
run_pytest(f, package_dir, o) ==
    IF ~PathExists(f, package_dir \o <<"tests">>)
    THEN [logs |-> <<"No tests found - skipping">>, errors |-> <<>>, raised |-> FALSE]
    ELSE IF o.kind = "raise"
    THEN [logs |-> <<>>, errors |-> <<"Test runner error: " \o o.exc>>, raised |-> FALSE]
    ELSE [logs |-> <<"Test results:\n" \o o.stdout>>,
          errors |-> IF o.returncode # 0
                     THEN <<"Tests failed with exit code " \o ToString(o.returncode)>>
                     ELSE <<>>,
          raised |-> FALSE]

\* build_package(package_dir), given what subprocess.run did; f is the
\* filesystem the build tool left, l1 and l2 the orders in which the two
\* dist_dir.iterdir() calls enumerate dist/.
build_package(f, package_dir, o, l1, l2) ==
    LET dist_dir == package_dir \o <<"dist">>
        out == <<"Build output:\n" \o o.stdout>>
    IN  IF o.kind = "raise"
        THEN [logs |-> <<>>, dist_files |-> <<>>,
              errors |-> <<"Build error: " \o o.exc>>, raised |-> FALSE]
        ELSE IF o.returncode = 0
        THEN IF PathExists(f, dist_dir)
             THEN [logs |-> out \o <<"Built packages: "
                                     \o JoinComma([i \in DOMAIN l2 |-> PathName(l2[i])])>>,
                   dist_files |-> [i \in DOMAIN l1 |-> PathStr(l1[i])],
                   errors |-> <<>>, raised |-> FALSE]
             ELSE [logs |-> out, dist_files |-> <<>>, errors |-> <<>>, raised |-> FALSE]
        ELSE [logs |-> out, dist_files |-> <<>>,
              errors |-> <<"Build failed with code " \o ToString(o.returncode)
                           \o ": " \o o.stderr>>,
              raised |-> FALSE]

\* Variant of upload_package: the published location is returned whatever
\* the upload tool's exit status was.
upload_package_url_always(o, req) ==
    IF o.kind = "raise"
    THEN [logs |-> <<>>, pypi_url |-> None,
          errors |-> <<"Upload error: " \o o.exc>>, raised |-> FALSE]
    ELSE [logs |-> <<"Upload output:\n" \o o.stdout>>,
          pypi_url |-> Some("https://pypi.org/project/" \o req.package_name
                            \o "/" \o req.version \o "/"),
          errors |-> IF o.returncode = 0 THEN <<>>
                     ELSE <<"Upload failed: " \o o.stderr>>,
          raised |-> FALSE]

\* upload_package(package_dir, request), given what subprocess.run did.
upload_package(o, req) ==
    IF o.kind = "raise"
    THEN [logs |-> <<>>, pypi_url |-> None,
          errors |-> <<"Upload error: " \o o.exc>>, raised |-> FALSE]
    ELSE IF o.returncode = 0
    THEN [logs |-> <<"Upload output:\n" \o o.stdout>>,
          pypi_url |-> Some("https://pypi.org/project/" \o req.package_name
                            \o "/" \o req.version \o "/"),
          errors |-> <<>>, raised |-> FALSE]
    ELSE [logs |-> <<"Upload output:\n" \o o.stdout>>, pypi_url |-> None,
          errors |-> <<"Upload failed: " \o o.stderr>>, raised |-> FALSE]

\* A stage result before the stage has run.
NoResult == [logs |-> <<>>, errors |-> <<>>, raised |-> FALSE]

\* What the build tool can leave behind: nothing, or dist/ with up to
\* MaxDistFiles artifacts.
Artifact(i) == "artifact" \o ToString(i) \o ".tar.gz"

BuildEffects(f, package_dir) ==
    {f} \cup
    { [p \in DOMAIN f \cup {package_dir \o <<"dist">>}
                      \cup {package_dir \o <<"dist", Artifact(i)>> : i \in 1..n} |->
          IF p \in DOMAIN f THEN f[p]
          ELSE IF p = package_dir \o <<"dist">> THEN DIR ELSE "archive"]
      : n \in 0..MaxDistFiles }

(***************************************************************************)
(* create_pypi_package                                                     *)
(***************************************************************************)

VARIABLES
    pc,            \* position in create_pypi_package
    request,       \* the PackageRequest argument
    fs,            \* the filesystem
    build_log, errors, dist_files, pypi_url, status,   \* locals
    package_dir,   \* local, <<>> while unbound
    exc,           \* the exception in flight, "" when none
    lint_result, test_result, build_result, upload_result,  \* locals
    proc,          \* what each external tool did in this run
    calls,         \* the stage functions invoked so far, in order
    response       \* the returned PackageResponse, <<>> before the return

vars == <<pc, request, fs, build_log, errors, dist_files, pypi_url, status,
          package_dir, exc, lint_result, test_result, build_result,
          upload_result, proc, calls, response>>

\* The directory tempfile.TemporaryDirectory() creates.
tmpdir == <<"tmp", "tmpdir">>

Append1(s, e) == s \o <<e>>

Init ==
    /\ pc = "start"
    /\ request \in PackageRequest
    /\ fs = UserFs
    /\ build_log = <<>>
    /\ errors = <<>>
    /\ dist_files = <<>>
    /\ pypi_url = None
    /\ status = ""
    /\ package_dir = <<>>
    /\ exc = ""
    /\ lint_result = NoResult
    /\ test_result = NoResult
    /\ build_result = [logs |-> <<>>, dist_files |-> <<>>, errors |-> <<>>, raised |-> FALSE]
    /\ upload_result = [logs |-> <<>>, pypi_url |-> None, errors |-> <<>>, raised |-> FALSE]
    /\ proc = [t \in {"ruff", "pytest", "build", "twine"} |-> NoProc]
    /\ calls = <<>>
    /\ response = <<>>

\* with tempfile.TemporaryDirectory() as tmpdir:
EnterWith ==
    /\ pc = "start"
    /\ fs' = MkdirParents(fs, tmpdir)
    /\ pc' = "scaffold"
    /\ UNCHANGED <<request, build_log, errors, dist_files, pypi_url, status,
                   package_dir, exc, lint_result, test_result, build_result,
                   upload_result, proc, calls, response>>

\* 1. Create package structure
Scaffold ==
    /\ pc = "scaffold"
    /\ LET r == setup_package_structure(fs, tmpdir, request)
       IN  /\ build_log' = Append1(build_log, "Creating package structure...")
           /\ calls' = Append1(calls, "setup_package_structure")
           /\ fs' = r.fs
           /\ package_dir' = r.package_dir
           /\ exc' = r.exc
           /\ pc' = IF r.raised THEN "except" ELSE "lint"
    /\ UNCHANGED <<request, errors, dist_files, pypi_url, status, lint_result,
                   test_result, build_result, upload_result, proc, response>>

\* Variant of Lint: a lint error ends the pipeline (the later stages are
\* skipped).
LintBlocking ==
    /\ pc = "lint"
    /\ IF request.lint_code
       THEN \E o \in ProcOutcomes :
              LET r == run_ruff_lint(o)
              IN  /\ proc' = [proc EXCEPT !["ruff"] = o]
                  /\ calls' = Append1(calls, "run_ruff_lint")
                  /\ lint_result' = r
                  /\ build_log' = Append1(build_log, "Running linter...") \o r.logs
                  /\ errors' = errors \o r.errors
                  /\ pc' = IF r.errors # <<>> THEN "status" ELSE "test"
                  /\ UNCHANGED exc
       ELSE /\ pc' = "test"
            /\ UNCHANGED <<proc, calls, build_log, errors, lint_result, exc>>
    /\ UNCHANGED <<request, fs, dist_files, pypi_url, status, package_dir,
                   test_result, build_result, upload_result, response>>

\* 2. Linting
Lint ==
    /\ pc = "lint"
    /\ IF request.lint_code
       THEN \E o \in ProcOutcomes :
              LET r == run_ruff_lint(o)
              IN  /\ proc' = [proc EXCEPT !["ruff"] = o]
                  /\ calls' = Append1(calls, "run_ruff_lint")
                  /\ IF r.raised
                     THEN /\ build_log' = Append1(build_log, "Running linter...")
                          /\ exc' = o.exc
                          /\ pc' = "except"
                          /\ UNCHANGED <<errors, lint_result>>
                     ELSE /\ lint_result' = r
                          /\ build_log' = Append1(build_log, "Running linter...") \o r.logs
                          /\ errors' = errors \o r.errors
                          /\ pc' = "test"
                          /\ UNCHANGED exc
       ELSE /\ pc' = "test"
            /\ UNCHANGED <<proc, calls, build_log, errors, lint_result, exc>>
    /\ UNCHANGED <<request, fs, dist_files, pypi_url, status, package_dir,
                   test_result, build_result, upload_result, response>>

\* 3. Testing
Test ==
    /\ pc = "test"
    /\ IF request.run_tests
       THEN \E o \in IF PathExists(fs, package_dir \o <<"tests">>)
                     THEN ProcOutcomes ELSE {NoProc} :
              LET r == run_pytest(fs, package_dir, o)
              IN  /\ proc' = [proc EXCEPT !["pytest"] = o]
                  /\ calls' = Append1(calls, "run_pytest")
                  /\ IF r.raised
                     THEN /\ build_log' = Append1(build_log, "Running tests...")
                          /\ exc' = o.exc
                          /\ pc' = "except"
                          /\ UNCHANGED <<errors, test_result>>
                     ELSE /\ test_result' = r
                          /\ build_log' = Append1(build_log, "Running tests...") \o r.logs
                          /\ errors' = errors \o r.errors
                          /\ pc' = "build"
                          /\ UNCHANGED exc
       ELSE /\ pc' = "build"
            /\ UNCHANGED <<proc, calls, build_log, errors, test_result, exc>>
    /\ UNCHANGED <<request, fs, dist_files, pypi_url, status, package_dir,
                   lint_result, build_result, upload_result, response>>

\* 4. Build package
Build ==
    /\ pc = "build"
    /\ \E o \in ProcOutcomes :
       \E f \in IF o.kind = "raise" THEN {fs} ELSE BuildEffects(fs, package_dir) :
       \E l1, l2 \in Orderings(DirEntries(f, package_dir \o <<"dist">>)) :
          LET r == build_package(f, package_dir, o, l1, l2)
          IN  /\ proc' = [proc EXCEPT !["build"] = o]
              /\ calls' = Append1(calls, "build_package")
              /\ fs' = f
              /\ IF r.raised
                 THEN /\ build_log' = Append1(build_log, "Building package...")
                      /\ exc' = o.exc
                      /\ pc' = "except"
                      /\ UNCHANGED <<build_result, dist_files>>
                 ELSE /\ build_result' = r
                      /\ build_log' = Append1(build_log, "Building package...") \o r.logs
                      /\ dist_files' = r.dist_files
                      /\ pc' = "publish"
                      /\ UNCHANGED exc
    /\ UNCHANGED <<request, errors, pypi_url, status, package_dir, lint_result,
                   test_result, upload_result, response>>

\* 5. Upload to PyPI
Publish ==
    /\ pc = "publish"
    /\ IF Truthy(request.pypi_token) /\ errors = <<>>
       THEN \E o \in ProcOutcomes :
              LET r == upload_package(o, request)
              IN  /\ proc' = [proc EXCEPT !["twine"] = o]
                  /\ calls' = Append1(calls, "upload_package")
                  /\ IF r.raised
                     THEN /\ build_log' = Append1(build_log, "Uploading to PyPI...")
                          /\ exc' = o.exc
                          /\ pc' = "except"
                          /\ UNCHANGED <<upload_result, pypi_url, errors>>
                     ELSE /\ upload_result' = r
                          /\ build_log' = Append1(build_log, "Uploading to PyPI...") \o r.logs
                          /\ pypi_url' = r.pypi_url
                          /\ errors' = errors \o r.errors
                          /\ pc' = "status"
                          /\ UNCHANGED exc
       ELSE /\ pc' = "status"
            /\ UNCHANGED <<proc, calls, build_log, upload_result, pypi_url, errors, exc>>
    /\ UNCHANGED <<request, fs, dist_files, status, package_dir, lint_result,
                   test_result, build_result, response>>

\* status = "success" if not errors else "partial_success"
SetStatus ==
    /\ pc = "status"
    /\ status' = IF errors = <<>> THEN "success" ELSE "partial_success"
    /\ pc' = "exit_with"
    /\ UNCHANGED <<request, fs, build_log, errors, dist_files, pypi_url,
                   package_dir, exc, lint_result, test_result, build_result,
                   upload_result, proc, calls, response>>

\* Variant of Except: the handler records the error but reports the run as
\* partially successful.
ExceptPartial ==
    /\ pc = "except"
    /\ errors' = Append1(errors, "Critical error: " \o exc)
    /\ status' = "partial_success"
    /\ exc' = ""
    /\ pc' = "exit_with"
    /\ UNCHANGED <<request, fs, build_log, dist_files, pypi_url, package_dir,
                   lint_result, test_result, build_result, upload_result,
                   proc, calls, response>>

\* except Exception as e:
Except ==
    /\ pc = "except"
    /\ errors' = Append1(errors, "Critical error: " \o exc)
    /\ status' = "error"
    /\ exc' = ""
    /\ pc' = "exit_with"
    /\ UNCHANGED <<request, fs, build_log, dist_files, pypi_url, package_dir,
                   lint_result, test_result, build_result, upload_result,
                   proc, calls, response>>

\* Leaving the with block removes the temporary directory.
ExitWith ==
    /\ pc = "exit_with"
    /\ fs' = RmTree(fs, tmpdir)
    /\ pc' = "return"
    /\ UNCHANGED <<request, build_log, errors, dist_files, pypi_url, status,
                   package_dir, exc, lint_result, test_result, build_result,
                   upload_result, proc, calls, response>>

\* return PackageResponse(...)
Return ==
    /\ pc = "return"
    /\ response' = <<[status |-> status, build_log |-> build_log,
                      dist_files |-> dist_files, errors |-> errors,
                      pypi_url |-> pypi_url]>>
    /\ pc' = "done"
    /\ UNCHANGED <<request, fs, build_log, errors, dist_files, pypi_url, status,
                   package_dir, exc, lint_result, test_result, build_result,
                   upload_result, proc, calls>>

Next ==
    \/ EnterWith
    \/ Scaffold
    \/ Lint
    \/ Test
    \/ Build
    \/ Publish
    \/ SetStatus
    \/ Except
    \/ ExitWith
    \/ Return

Spec == Init /\ [][Next]_vars

(***************************************************************************)
(* Properties                                                              *)
(***************************************************************************)

InSeq(e, s) == \E i \in DOMAIN s : s[i] = e

Called(name) == InSeq(name, calls)

Count(name) == Cardinality({i \in DOMAIN calls : calls[i] = name})

\* setup_package_structure was called and raised.
ScaffoldRaised == Called("setup_package_structure") /\ package_dir = <<>>

\* setup_package_structure was called and returned.
ScaffoldReturned == Called("setup_package_structure") /\ package_dir # <<>>

\* Some stage that ran returned a non-empty error list.
AnyStageError ==
    \/ lint_result.errors # <<>>
    \/ test_result.errors # <<>>
    \/ build_result.errors # <<>>
    \/ upload_result.errors # <<>>

BuildExitedNonZero == proc["build"].kind = "exit" /\ proc["build"].returncode # 0

\* C1: if the build tool exits with a non-zero status, upload_package is
\* never invoked in that run.
C1_NoPublishAfterFailedBuild ==
    BuildExitedNonZero => ~Called("upload_package")

\* C2: every error a stage that ran returned (Lint, Test, Build, Publish) is
\* in the errors field of the returned PackageResponse.
C2_StageErrorsInResponse ==
    pc = "done" =>
        \A r \in {lint_result.errors, test_result.errors,
                  build_result.errors, upload_result.errors} :
            \A i \in DOMAIN r : InSeq(r[i], response[1].errors)

\* C3: the returned status is error if Scaffold raised, otherwise
\* partial_success if some stage that ran recorded an error, otherwise
\* success.
C3_StatusDetermined ==
    pc = "done" =>
        /\ response[1].status \in {"error", "partial_success", "success"}
        /\ response[1].status =
              IF ScaffoldRaised THEN "error"
              ELSE IF AnyStageError THEN "partial_success"
              ELSE "success"

\* C4: if setup_package_structure raises, no later stage is invoked, and the
\* response has status error, exactly one error (describing the exception),
\* no dist_files and no pypi_url.
C4_ScaffoldFailureIsFatal ==
    ScaffoldRaised =>
        /\ calls = <<"setup_package_structure">>
        /\ pc = "done" =>
              /\ response[1].status = "error"
              /\ response[1].errors =
                    <<"Critical error: [Errno 2] No such file or directory: '"
                      \o PathStr(request.source_path) \o "'">>
              /\ response[1].dist_files = <<>>
              /\ response[1].pypi_url = None

C4_Witness == pc = "done" /\ ScaffoldRaised

\* C5: upload_package is invoked only if a credential was supplied and no
\* error was recorded by Lint, Test or Build; at most once, and only after
\* build_package.
C5_PublishOnlyWhenClean ==
    Called("upload_package") =>
        /\ request.pypi_token # None
        /\ lint_result.errors = <<>>
        /\ test_result.errors = <<>>
        /\ build_result.errors = <<>>
        /\ Count("upload_package") = 1
        /\ \E i, j \in DOMAIN calls :
              i < j /\ calls[i] = "build_package" /\ calls[j] = "upload_package"

\* C6: when the invocation has returned, the temporary directory and
\* everything under it are gone, whatever the status.
C6_TmpdirRemoved ==
    pc = "done" => \A p \in DOMAIN fs : ~IsPrefix(tmpdir, p)

C6_Witness ==
    pc = "done" /\ response[1].status = "success" /\ response[1].dist_files # <<>>

\* The stage calls a run makes up to and including build_package.
ExpectedCalls ==
    <<"setup_package_structure">>
    \o (IF request.lint_code THEN <<"run_ruff_lint">> ELSE <<>>)
    \o (IF request.run_tests THEN <<"run_pytest">> ELSE <<>>)
    \o <<"build_package">>

\* C7: whenever Scaffold returns, the run invokes build_package exactly once,
\* after Lint and Test (each only if its flag is set), whether or not they
\* recorded errors.
C7_BuildAlwaysRuns ==
    (pc = "done" /\ ScaffoldReturned) =>
        /\ IsPrefix(ExpectedCalls, calls)
        /\ Count("build_package") = 1

C7_Witness ==
    pc = "done" /\ lint_result.errors # <<>> /\ Called("build_package")

\* The copied source brings its own __init__.py.
SourceProvidesInit ==
    IF PathIsDir(UserFs, request.source_path)
    THEN PathExists(UserFs, request.source_path \o <<"__init__.py">>)
    ELSE PathName(request.source_path) = "__init__.py"

LintCompleted == proc["ruff"].kind = "exit"

\* C9 as stated: run_ruff_lint never raises; a non-zero exit status alone
\* gives a warning log line and no error; and whenever the linter wrote to
\* its diagnostic stream, the returned errors have an entry for that output.
C9_StderrAlwaysRecorded ==
    Called("run_ruff_lint") =>
        /\ ~(pc = "except" /\ calls[Len(calls)] = "run_ruff_lint")
        /\ (LintCompleted /\ proc["ruff"].returncode # 0 /\ proc["ruff"].stderr = "") =>
              /\ lint_result.errors = <<>>
              /\ lint_result.logs = <<"Linting issues:\n" \o proc["ruff"].stdout>>
        /\ (LintCompleted /\ proc["ruff"].stderr # "") =>
              InSeq("Linting error: " \o proc["ruff"].stderr, lint_result.errors)

\* C9 amended: run_ruff_lint never raises; a non-zero exit status alone
\* gives a warning log line and no error; and whenever the linter exited
\* non-zero and wrote to its diagnostic stream, the returned errors have an
\* entry for that output.
C9_StderrRecordedOnFailure ==
    Called("run_ruff_lint") =>
        /\ ~(pc = "except" /\ calls[Len(calls)] = "run_ruff_lint")
        /\ (LintCompleted /\ proc["ruff"].returncode # 0 /\ proc["ruff"].stderr = "") =>
              /\ lint_result.errors = <<>>
              /\ lint_result.logs = <<"Linting issues:\n" \o proc["ruff"].stdout>>
        /\ (LintCompleted /\ proc["ruff"].returncode # 0 /\ proc["ruff"].stderr # "") =>
              InSeq("Linting error: " \o proc["ruff"].stderr, lint_result.errors)

C9_Witness ==
    /\ pc = "test"
    /\ LintCompleted
    /\ proc["ruff"].returncode # 0
    /\ proc["ruff"].stderr # ""

\* C10: a returned pypi_url is non-null only if a credential was supplied,
\* upload_package ran and the upload tool exited zero; then the status is
\* success and errors is empty; with status error or partial_success the
\* pypi_url is null.
C10_UrlOnlyOnSuccessfulUpload ==
    pc = "done" =>
        /\ response[1].pypi_url # None =>
              /\ request.pypi_token # None
              /\ Called("upload_package")
              /\ proc["twine"].kind = "exit"
              /\ proc["twine"].returncode = 0
              /\ response[1].status = "success"
              /\ response[1].errors = <<>>
        /\ response[1].status \in {"error", "partial_success"} =>
              response[1].pypi_url = None

C10_Witness == pc = "done" /\ response[1].pypi_url # None

====
